---- MODULE Spec2Model ----
(***************************************************************************)
(* Model of the CDK card distribution worker: the D1 tables projects,      *)
(* cards and claim_records (workers/src/database.ts), the claim handler    *)
(* (workers/src/handlers/claim.ts) and the project management handlers     *)
(* (workers/src/handlers/projects.ts).  Every await on the database is a   *)
(* separate step, so requests interleave exactly where the worker runtime  *)
(* lets them interleave.  One project is modelled; its row can be deleted. *)
(***************************************************************************)
EXTENDS Integers, Sequences, FiniteSets, TLC

\* ------------------------------------------------------------------ bounds
\* claim requests in flight together with an admin request (Spec)
MaxReqs == 2
\* claim requests in flight when no admin request runs (SpecClaims)
MaxClaimReqs == 3
\* card ids that can ever be generated, and the cards the project starts with
MaxCards == 3
InitialPool == 2

Reqs == 1..MaxReqs
ClaimReqs == 1..MaxClaimReqs
AllReqs == Reqs \cup ClaimReqs
\* the admin requests in flight: one at a time next to the claim requests
Admins == {"a1"}
\* two admin requests in flight at once, for the card-management operations
AdminPair == {"a1", "a2"}
CardIds == 1..MaxCards
\* the requests in flight that carry a session id (SpecSession)
SessReqs == {"q1", "q2", "q3"}

\* ------------------------------------------------------- input alphabets
Identities == {"u1", "u2"}
ClaimIdentities == {"u1", "u2", "u3"}
ClaimPasswords == {"pw", "bad"}
AdminPasswords == {"adm", "bad"}
Contents == {"A", "B"}

VARIABLES project, cards, records, req, adm, gw, rl, allowed, now,
          sessions, loggedOut, vs

vars == <<project, cards, records, req, adm, gw, rl, allowed, now,
          sessions, loggedOut, vs>>
db == <<project, cards, records>>
\* the state in front of the handlers: the requests on their way through
\* handleRequest, the rate-limit record of the client in KV, the number
\* of checks each limiter has let pass in the record's window, and the
\* clock Date.now() reads, in milliseconds
gate == <<gw, rl, allowed, now>>
\* the session store: the session ids whose key session:<id> is present in
\* KV, the ids deleteSession has deleted, and the requests that carry a
\* session id through verifySession or handleLogout
sess == <<sessions, loggedOut, vs>>

\* --------------------------------------------------------------- values
\* the result of a SELECT on projects that finds no row
NoProject == [exists |-> FALSE, name |-> "null", password |-> "null",
              adminPassword |-> "null", isActive |-> FALSE, limitOnePerUser |-> FALSE,
              totalCards |-> 0, claimedCards |-> 0]

\* a row of table cards (schema: id, project_id, content, is_claimed,
\* claimed_at, claimed_by); claimed_at is written together with claimed_by.
\* st tells whether the id is not yet generated, a row, or a deleted row.
CardRow(content) == [st |-> "row", content |-> content, isClaimed |-> FALSE,
                     claimedBy |-> "null"]
Unused == [st |-> "unused", content |-> "null", isClaimed |-> FALSE, claimedBy |-> "null"]
Deleted == [st |-> "deleted", content |-> "null", isClaimed |-> FALSE, claimedBy |-> "null"]
NoCard == 0
NoRecord == [ipHash |-> "null", cardContent |-> "null"]

IsRow(cs, c) == c \in CardIds /\ cs[c].st = "row"

\* getCard: SELECT * FROM cards WHERE project_id = ? AND id = ?  (null: st # "row")
getCard(cs, c) == IF IsRow(cs, c) THEN cs[c] ELSE Deleted

\* getProject: SELECT * FROM projects WHERE id = ?
getProject(p) == p

\* the ids getRandomAvailableCard can return:
\* SELECT id FROM cards WHERE project_id = ? AND is_claimed = 0 ORDER BY RANDOM() LIMIT 1
AvailableCards(cs) == {c \in CardIds : IsRow(cs, c) /\ ~cs[c].isClaimed}

\* hasUserClaimed: SELECT * FROM claim_records WHERE project_id = ? AND ip_hash = ? (first row)
RecordsOf(recs, ip) == {i \in 1..Len(recs) : recs[i].ipHash = ip}
hasUserClaimed_NoLookup(recs, ip) == NoRecord
hasUserClaimed(recs, ip) ==
    IF RecordsOf(recs, ip) = {} THEN NoRecord
    ELSE recs[CHOOSE i \in RecordsOf(recs, ip) : \A j \in RecordsOf(recs, ip) : i <= j]

\* claim handler validation, in the order of the code: 404, 403, 401
Validate_NoPasswordCheck(p, pw) ==
    IF ~p.exists THEN "NotFound"
    ELSE IF ~p.isActive THEN "Inactive"
    ELSE "ok"
Validate_NoActiveCheck(p, pw) ==
    IF ~p.exists THEN "NotFound"
    ELSE IF p.password # pw THEN "BadPassword"
    ELSE "ok"
Validate_PasswordFirst(p, pw) ==
    IF ~p.exists THEN "NotFound"
    ELSE IF p.password # pw THEN "BadPassword"
    ELSE IF ~p.isActive THEN "Inactive"
    ELSE "ok"
Validate(p, pw) ==
    IF ~p.exists THEN "NotFound"
    ELSE IF ~p.isActive THEN "Inactive"
    ELSE IF p.password # pw THEN "BadPassword"
    ELSE "ok"

\* HTTP status of each outcome of the claim handler
Status(kind) ==
    CASE kind = "ok" -> 200
      [] kind = "already" -> 200
      [] kind = "hasClaimed" -> 200
      [] kind = "notClaimed" -> 200
      [] kind = "NotFound" -> 404
      [] kind = "Inactive" -> 403
      [] kind = "BadPassword" -> 401
      [] kind = "Exhausted" -> 410
      [] kind = "RaceLost" -> 500
      [] kind = "Internal" -> 500
      [] OTHER -> 0

\* ---- the three statements of the batch in DatabaseService.claimCard ----
\* UPDATE cards SET is_claimed = 1, claimed_at = ?, claimed_by = ? WHERE id = ? AND is_claimed = 0
MarkClaimed_Unconditional(cs, c, ip) ==
    IF IsRow(cs, c)
    THEN [cs EXCEPT ![c] = [@ EXCEPT !.isClaimed = TRUE, !.claimedBy = ip]]
    ELSE cs
MarkClaimed(cs, c, ip) ==
    IF IsRow(cs, c) /\ ~cs[c].isClaimed
    THEN [cs EXCEPT ![c] = [@ EXCEPT !.isClaimed = TRUE, !.claimedBy = ip]]
    ELSE cs

\* INSERT INTO claim_records: rejected by the unique index idx_claim_unique
\* (project_id, ip_hash) and by the foreign key on project_id
InsertRejected_NoUniqueIndex(p, recs, ip) == ~p.exists
InsertRejected_NoForeignKey(p, recs, ip) == RecordsOf(recs, ip) # {}
InsertRejected(p, recs, ip) ==
    \/ ~p.exists
    \/ RecordsOf(recs, ip) # {}

InsertRecord_Replace(recs, content, ip) == <<[ipHash |-> ip, cardContent |-> content]>>
InsertRecord(recs, content, ip) == Append(recs, [ipHash |-> ip, cardContent |-> content])

\* UPDATE projects SET claimed_cards = claimed_cards + 1 WHERE id = ?
IncrementClaimed(p) ==
    IF ~p.exists THEN p ELSE [p EXCEPT !.claimedCards = @ + 1]

\* ------------------------------------------------------------------ Init
\* the paths tried at the worker and the limiter handleRequest puts in front of each
ClaimPath == "/api/claim"
VerifyPath == "/api/verify"
ProjectsPath == "/api/projects"
HealthPath == "/api/health"
GatePaths == {ClaimPath, VerifyPath, ProjectsPath, HealthPath}
LimitedPaths == {ClaimPath, VerifyPath, ProjectsPath}

\* what the request carries as session: no cookie, the id of no stored
\* session, the session of a banned user, the session of a user in good standing
Sessions == {"none", "unknown", "banned", "valid"}

\* the rate-limit record { count, resetTime } of the client under ratelimit:<ip>
NoLimitRecord == [present |-> FALSE, resetTime |-> 0, count |-> 0]
IdleGw == [pc |-> "new", path |-> "none", session |-> "none", record |-> NoLimitRecord,
           retryAfter |-> 0,
           resp |-> 0]

IdleReq == [pc |-> "idle", ipHash |-> "null", password |-> "null",
            cardId |-> NoCard, content |-> "null", picks |-> 0,
            resp |-> "none", respCard |-> "null"]

\* a request body of updateProject: the fields it carries and their values
Body(fields, val) == [fields |-> fields, val |-> val]
NoBody == Body({}, NoProject)

IdleAdm == [pc |-> "idle", op |-> "none", cardId |-> NoCard, body |-> NoBody,
            snap |-> NoProject, total |-> 0, resp |-> 0, password |-> "null"]

\* the project as ProjectHandler.createProject leaves it: active, with its
\* first batch of cards added and counted; limit_one_per_user is either value
\* (the column defaults to 1, createProject stores 0, updateProject can set it)
InitialCards == {c \in CardIds : c <= InitialPool}
InitialContent(c) == IF c % 2 = 1 THEN "A" ELSE "B"

InitTables ==
    /\ project \in {[exists |-> TRUE, name |-> "n1", password |-> "pw", adminPassword |-> "adm",
                     isActive |-> TRUE, limitOnePerUser |-> lim,
                     totalCards |-> Cardinality(InitialCards), claimedCards |-> 0] :
                    lim \in BOOLEAN}
    /\ cards = [c \in CardIds |-> IF c \in InitialCards THEN CardRow(InitialContent(c))
                                  ELSE Unused]
    /\ records = <<>>
    /\ req = [r \in AllReqs |-> IdleReq]
    /\ adm = [a \in Admins \cup AdminPair |-> IdleAdm]

\* no request has reached the worker yet: KV holds no rate-limit record
\* session ids a request can carry; "none" is a request without cookie
SessionIds == {"s1", "s2"}
NoSessionId == "none"
IdleVs == [pc |-> "new", op |-> "none", sid |-> NoSessionId, valid |-> FALSE]
\* no session has been created: KV holds no session key
NoSessions ==
    /\ sessions = {}
    /\ loggedOut = {}
    /\ vs = [r \in SessReqs |-> IdleVs]

Init ==
    /\ InitTables
    /\ gw = [r \in Reqs |-> IdleGw]
    /\ rl = NoLimitRecord
    /\ allowed = [p \in LimitedPaths |-> 0]
    /\ now = 0
    /\ NoSessions

\* ------------------------------------------------- ClaimHandler.claimCard
Respond(r, kind, card) ==
    req' = [req EXCEPT ![r] = [@ EXCEPT !.pc = "done", !.resp = kind, !.respCard = card]]

\* if (project.limitOnePerUser): the duplicate check runs only with the flag on
AfterValidation_AlwaysCheck(p) == "dupcheck"
AfterValidation(p) == IF p.limitOnePerUser THEN "dupcheck" ELSE "pick"

\* getProject and the three checks of the handler
ClaimValidate(r, ids) ==
    /\ req[r].pc = "idle"
    /\ \E ip \in ids, pw \in ClaimPasswords :
         LET v == Validate(getProject(project), pw) IN
         IF v # "ok"
         THEN req' = [req EXCEPT ![r] = [@ EXCEPT !.pc = "done", !.ipHash = ip,
                                           !.password = pw, !.resp = v]]
         ELSE req' = [req EXCEPT ![r] = [@ EXCEPT !.ipHash = ip, !.password = pw,
                          !.pc = AfterValidation(getProject(project))]]
    /\ UNCHANGED <<db, adm, gate, sess>>

\* if (project.limitOnePerUser) hasUserClaimed
ClaimDupCheck(r) ==
    /\ req[r].pc = "dupcheck"
    /\ LET existingClaim == hasUserClaimed(records, req[r].ipHash) IN
       IF existingClaim # NoRecord
       THEN Respond(r, "already", existingClaim.cardContent)
       ELSE req' = [req EXCEPT ![r].pc = "pick"]
    /\ UNCHANGED <<db, adm, gate, sess>>

\* getRandomAvailableCard
ClaimPick(r) ==
    /\ req[r].pc = "pick"
    /\ IF AvailableCards(cards) = {}
       THEN Respond(r, "Exhausted", "null")
       ELSE \E c \in AvailableCards(cards) :
              req' = [req EXCEPT ![r] = [@ EXCEPT !.pc = "getcard", !.cardId = c,
                                                  !.picks = @ + 1]]
    /\ UNCHANGED <<db, adm, gate, sess>>

\* what the handler does when DatabaseService.claimCard returns null
OnClaimNull_Retry(r) == req' = [req EXCEPT ![r].pc = "pick"]
OnClaimNull(r) == Respond(r, "RaceLost", "null")

\* DatabaseService.claimCard line 197-198: the read of the picked card
ClaimGetCard(r) ==
    /\ req[r].pc = "getcard"
    /\ LET card == getCard(cards, req[r].cardId) IN
       IF card.st # "row" \/ card.isClaimed
       THEN OnClaimNull(r)
       ELSE req' = [req EXCEPT ![r] = [@ EXCEPT !.pc = "batch", !.content = card.content]]
    /\ UNCHANGED <<db, adm, gate, sess>>

\* DatabaseService.claimCard line 204-224: the batch, one transaction
\* db.batch runs its statements in one transaction: when the INSERT is
\* rejected the UPDATE of the card that ran before it is rolled back
BatchCards_NoRollback(cs, c, ip, rejected) == MarkClaimed(cs, c, ip)
BatchCards(cs, c, ip, rejected) == IF rejected THEN cs ELSE MarkClaimed(cs, c, ip)

ClaimBatch(r) ==
    /\ req[r].pc = "batch"
    /\ LET rejected == InsertRejected(project, records, req[r].ipHash) IN
       /\ cards' = BatchCards(cards, req[r].cardId, req[r].ipHash, rejected)
       /\ IF rejected
          THEN /\ Respond(r, "Internal", "null")
               /\ UNCHANGED <<project, records>>
          ELSE /\ records' = InsertRecord(records, req[r].content, req[r].ipHash)
               /\ project' = IncrementClaimed(project)
               /\ Respond(r, "ok", req[r].content)
    /\ UNCHANGED <<adm, gate, sess>>

Claim(r, ids) ==
    \/ ClaimValidate(r, ids)
    \/ ClaimDupCheck(r)
    \/ ClaimPick(r)
    \/ ClaimGetCard(r)
    \/ ClaimBatch(r)

\* ---------------------------------------------- ClaimHandler.getClaimStatus
\* hasClaimed: !!existingClaim
HasClaimed_Always(existingClaim) == TRUE
HasClaimed(existingClaim) == existingClaim # NoRecord

\* getProject, 404, then the caller's identity from getClientIP and hashIP
StatusGetProject(r, ids) ==
    /\ req[r].pc = "idle"
    /\ \E ip \in ids :
         IF ~getProject(project).exists
         THEN req' = [req EXCEPT ![r] = [@ EXCEPT !.pc = "done", !.ipHash = ip,
                                           !.resp = "NotFound"]]
         ELSE req' = [req EXCEPT ![r] = [@ EXCEPT !.pc = "st_lookup", !.ipHash = ip]]
    /\ UNCHANGED <<db, adm, gate, sess>>

\* hasUserClaimed and the response { hasClaimed, claimRecord }
StatusLookup(r) ==
    /\ req[r].pc = "st_lookup"
    /\ LET existingClaim == hasUserClaimed(records, req[r].ipHash) IN
       Respond(r, IF HasClaimed(existingClaim) THEN "hasClaimed" ELSE "notClaimed",
               existingClaim.cardContent)
    /\ UNCHANGED <<db, adm, gate, sess>>

ClaimStatus(r, ids) ==
    \/ StatusGetProject(r, ids)
    \/ StatusLookup(r)

\* ------------------------------------------ ProjectHandler (admin requests)
AdmSet(a, rec) == adm' = [adm EXCEPT ![a] = rec]
AdmDone(a, status) ==
    adm' = [adm EXCEPT ![a] = [IdleAdm EXCEPT !.pc = "done", !.op = adm[a].op,
                                              !.cardId = adm[a].cardId, !.resp = status]]

\* the check every admin handler starts with: getProject, 404, then 401
AdminCheck_NoPasswordCheck(p, pw) == IF ~p.exists THEN 404 ELSE 200
AdminCheck(p, pw) ==
    IF ~p.exists THEN 404
    ELSE IF p.adminPassword # pw THEN 401
    ELSE 200

\* the bodies of PUT /api/projects/:id that are tried; the validation
\* middleware passes the parsed body on unchanged, extra fields included
UpdateBodies(pw) ==
    { Body({"name", "adminPassword"}, [NoProject EXCEPT !.name = "n2", !.adminPassword = pw]),
      Body({"isActive", "adminPassword"}, [NoProject EXCEPT !.isActive = FALSE, !.adminPassword = pw]),
      Body({"limitOnePerUser", "adminPassword"},
           [NoProject EXCEPT !.limitOnePerUser = TRUE, !.adminPassword = pw]),
      Body({"claimedCards", "adminPassword"},
           [NoProject EXCEPT !.claimedCards = 0, !.adminPassword = pw]) }

\* updatedProject = { ...project, ...updates }, bound to the columns of the UPDATE
Merge(snap, body) ==
    [f \in DOMAIN snap |-> IF f \in body.fields /\ f # "exists" THEN body.val[f] ELSE snap[f]]

\* ProjectHandler.updateProject, up to the call of DatabaseService.updateProject
UpdateStart(a) ==
    /\ adm[a].pc = "idle"
    /\ \E pw \in AdminPasswords : \E b \in UpdateBodies(pw) :
         LET st == AdminCheck(getProject(project), pw) IN
         IF st # 200 THEN AdmSet(a, [adm[a] EXCEPT !.pc = "done", !.op = "updateProject", !.password = pw, !.resp = st])
         ELSE AdmSet(a, [adm[a] EXCEPT !.pc = "upd_read", !.op = "updateProject", !.password = pw, !.body = b])
    /\ UNCHANGED <<db, req, gate, sess>>

\* ProjectHandler.toggleProjectStatus, up to the call of DatabaseService.updateProject
ToggleStart(a) ==
    /\ adm[a].pc = "idle"
    /\ \E pw \in AdminPasswords, active \in BOOLEAN :
         LET st == AdminCheck(getProject(project), pw) IN
         IF st # 200 THEN AdmSet(a, [adm[a] EXCEPT !.pc = "done", !.op = "toggle", !.password = pw, !.resp = st])
         ELSE AdmSet(a, [adm[a] EXCEPT !.pc = "upd_read", !.op = "toggle", !.password = pw,
                  !.body = Body({"isActive", "adminPassword"},
                                [NoProject EXCEPT !.isActive = active, !.adminPassword = pw])])
    /\ UNCHANGED <<db, req, gate, sess>>

\* the status of a handler whose DatabaseService.updateProject found no project
NullUpdateStatus(op) ==
    CASE op = "updateProject" -> 404
      [] op = "toggle" -> 500
      [] OTHER -> 200

\* DatabaseService.updateProject line 60-61: the read
UpdateRead(a) ==
    /\ adm[a].pc = "upd_read"
    /\ IF ~getProject(project).exists
       THEN AdmDone(a, NullUpdateStatus(adm[a].op))
       ELSE AdmSet(a, [adm[a] EXCEPT !.pc = "upd_write", !.snap = getProject(project)])
    /\ UNCHANGED <<db, req, gate, sess>>

\* DatabaseService.updateProject line 69-85: UPDATE projects SET every column WHERE id = ?
UpdateWrite(a) ==
    /\ adm[a].pc = "upd_write"
    /\ project' = IF project.exists THEN Merge(adm[a].snap, adm[a].body) ELSE project
    /\ AdmDone(a, 200)
    /\ UNCHANGED <<cards, records, req, gate, sess>>

\* the free card ids, in the order generateId hands them out
FreshIds(cs) == {c \in CardIds : cs[c].st = "unused"}
MinFresh(cs) == CHOOSE c \in FreshIds(cs) : \A d \in FreshIds(cs) : c <= d

\* ProjectHandler.addCards, up to the call of DatabaseService.addCards (one card per request)
AddCardsStart(a) ==
    /\ adm[a].pc = "idle"
    /\ FreshIds(cards) # {}
    /\ \E pw \in AdminPasswords, content \in Contents :
         LET st == AdminCheck(getProject(project), pw) IN
         IF st # 200 THEN AdmSet(a, [adm[a] EXCEPT !.pc = "done", !.op = "addCards", !.password = pw, !.resp = st])
         ELSE AdmSet(a, [adm[a] EXCEPT !.pc = "add_read", !.op = "addCards", !.password = pw,
                                       !.body = Body({}, [NoProject EXCEPT !.name = content])])
    /\ UNCHANGED <<db, req, gate, sess>>

\* DatabaseService.addCards line 121-122
AddCardsRead(a) ==
    /\ adm[a].pc = "add_read"
    /\ IF ~getProject(project).exists
       THEN AdmDone(a, 500)
       ELSE AdmSet(a, [adm[a] EXCEPT !.pc = "add_insert", !.total = getProject(project).totalCards])
    /\ UNCHANGED <<db, req, gate, sess>>

\* DatabaseService.addCards line 125-138: the batch INSERT, then newTotal
AddCardsInsert(a) ==
    /\ adm[a].pc = "add_insert"
    /\ FreshIds(cards) # {}
    /\ IF ~project.exists
       THEN AdmDone(a, 500) /\ UNCHANGED cards
       ELSE /\ cards' = [cards EXCEPT ![MinFresh(cards)] = CardRow(adm[a].body.val.name)]
            /\ AdmSet(a, [adm[a] EXCEPT !.pc = "upd_read",
                   !.body = Body({"totalCards"}, [NoProject EXCEPT !.totalCards = adm[a].total + 1])])
    /\ UNCHANGED <<project, records, req, gate, sess>>

\* ProjectHandler.deleteCard line 279-286
DeleteCardStart(a) ==
    /\ adm[a].pc = "idle"
    /\ \E pw \in AdminPasswords, c \in CardIds :
         LET st == AdminCheck(getProject(project), pw) IN
         IF st # 200 THEN AdmSet(a, [adm[a] EXCEPT !.pc = "done", !.op = "deleteCard", !.password = pw, !.resp = st])
         ELSE AdmSet(a, [adm[a] EXCEPT !.pc = "del_hget", !.op = "deleteCard", !.password = pw, !.cardId = c])
    /\ UNCHANGED <<db, req, gate, sess>>

\* ProjectHandler.deleteCard line 289-296
DeleteCardHandlerGet(a) ==
    /\ adm[a].pc = "del_hget"
    /\ LET card == getCard(cards, adm[a].cardId) IN
       IF card.st # "row" THEN AdmDone(a, 404)
       ELSE IF card.isClaimed THEN AdmDone(a, 400)
       ELSE AdmSet(a, [adm[a] EXCEPT !.pc = "del_get"])
    /\ UNCHANGED <<db, req, gate, sess>>

\* DatabaseService.deleteCard line 162-163
DeleteCardGet(a) ==
    /\ adm[a].pc = "del_get"
    /\ LET card == getCard(cards, adm[a].cardId) IN
       IF card.st # "row" \/ card.isClaimed THEN AdmDone(a, 500)
       ELSE AdmSet(a, [adm[a] EXCEPT !.pc = "del_delete"])
    /\ UNCHANGED <<db, req, gate, sess>>

\* DatabaseService.deleteCard line 165: DELETE FROM cards WHERE id = ?
DeleteRow(cs, c) == IF IsRow(cs, c) THEN [cs EXCEPT ![c] = Deleted] ELSE cs

DeleteCardDelete(a) ==
    /\ adm[a].pc = "del_delete"
    /\ cards' = DeleteRow(cards, adm[a].cardId)
    /\ AdmSet(a, [adm[a] EXCEPT !.pc = "del_read"])
    /\ UNCHANGED <<project, records, req, gate, sess>>

\* DatabaseService.deleteCard line 168-173
DeleteCardRead(a) ==
    /\ adm[a].pc = "del_read"
    /\ IF ~getProject(project).exists
       THEN AdmDone(a, 200)
       ELSE AdmSet(a, [adm[a] EXCEPT !.pc = "upd_read",
              !.body = Body({"totalCards"},
                            [NoProject EXCEPT !.totalCards = getProject(project).totalCards - 1])])
    /\ UNCHANGED <<db, req, gate, sess>>

\* ProjectHandler.deleteProject line 168-175
DeleteProjectStart(a) ==
    /\ adm[a].pc = "idle"
    /\ \E pw \in AdminPasswords :
         LET st == AdminCheck(getProject(project), pw) IN
         IF st # 200 THEN AdmSet(a, [adm[a] EXCEPT !.pc = "done", !.op = "deleteProject", !.password = pw, !.resp = st])
         ELSE AdmSet(a, [adm[a] EXCEPT !.pc = "delp_read", !.op = "deleteProject", !.password = pw])
    /\ UNCHANGED <<db, req, gate, sess>>

\* DatabaseService.deleteProject line 91-92
DeleteProjectRead(a) ==
    /\ adm[a].pc = "delp_read"
    /\ IF ~getProject(project).exists
       THEN AdmDone(a, 500)
       ELSE AdmSet(a, [adm[a] EXCEPT !.pc = "delp_delete"])
    /\ UNCHANGED <<db, req, gate, sess>>

\* DatabaseService.deleteProject line 95: DELETE FROM projects, ON DELETE CASCADE
DeleteProjectDelete(a) ==
    /\ adm[a].pc = "delp_delete"
    /\ project' = NoProject
    /\ cards' = [c \in CardIds |-> IF cards[c].st = "row" THEN Deleted ELSE cards[c]]
    /\ records' = <<>>
    /\ AdmDone(a, 200)
    /\ UNCHANGED <<req, gate, sess>>

Admin(a) ==
    \/ UpdateStart(a)
    \/ ToggleStart(a)
    \/ UpdateRead(a)
    \/ UpdateWrite(a)
    \/ AddCardsStart(a)
    \/ AddCardsRead(a)
    \/ AddCardsInsert(a)
    \/ DeleteCardStart(a)
    \/ DeleteCardHandlerGet(a)
    \/ DeleteCardGet(a)
    \/ DeleteCardDelete(a)
    \/ DeleteCardRead(a)
    \/ DeleteProjectStart(a)
    \/ DeleteProjectRead(a)
    \/ DeleteProjectDelete(a)

\* ------------------------------------------- handleRequest, RateLimiter
\* needsAuth = protectedPaths.some(p => path.startsWith(p)), for the paths tried
ProtectedPaths == {ProjectsPath, "/api/verify-admin", VerifyPath, ClaimPath, "/api/admin"}
NeedsAuth_Never(path) == FALSE
NeedsAuth(path) == path \in ProtectedPaths

\* AuthHandler.verifySession: a cookie, a stored session, a user who is not banned
VerifySession(session) == session = "valid"

\* RATE_LIMITS: CLAIM_CARD for /api/claim, PASSWORD_VERIFY for /api/verify,
\* GENERAL for GET /api/projects
MaxRequestsOf(path) ==
    IF path = ClaimPath THEN 20
    ELSE IF path = VerifyPath THEN 10
    ELSE 60

\* handleRequest up to the limiter of the route: the health route, then the
\* session check of the protected paths
GateAuth(r) ==
    /\ gw[r].pc = "new"
    /\ \E path \in GatePaths, session \in Sessions :
         gw' = [gw EXCEPT ![r] =
                  IF path = HealthPath
                  THEN [@ EXCEPT !.pc = "done", !.path = path, !.session = session, !.resp = 200]
                  ELSE IF NeedsAuth(path) /\ ~VerifySession(session)
                  THEN [@ EXCEPT !.pc = "done", !.path = path, !.session = session, !.resp = 401]
                  ELSE [@ EXCEPT !.pc = "limit", !.path = path, !.session = session]]
    /\ UNCHANGED <<db, req, adm, rl, allowed, now, sess>>

\* windowMs of the limiters: 60 * 1000
WindowMs == 60000

\* RateLimiter.checkLimit line 39-56: the record this check will store
NextRecord_NoReset(existing, t) ==
    IF existing.present
    THEN [existing EXCEPT !.count = @ + 1]
    ELSE [present |-> TRUE, resetTime |-> t + WindowMs, count |-> 1]
NextRecord(existing, t) ==
    IF existing.present /\ ~(existing.resetTime <= t)
    THEN [existing EXCEPT !.count = @ + 1]
    ELSE [present |-> TRUE, resetTime |-> t + WindowMs, count |-> 1]

\* retryAfter = Math.ceil((record.resetTime - now) / 1000)
RetryAfter(record, t) ==
    IF record.resetTime - t > 0
    THEN (record.resetTime - t + 999) \div 1000
    ELSE -((t - record.resetTime) \div 1000)

\* RateLimiter.checkLimit line 35-62: kv.get, the new count, 429 when over the limit
LimitRead(r) ==
    /\ gw[r].pc = "limit"
    /\ LET record == NextRecord(rl, now) IN
       IF record.count > MaxRequestsOf(gw[r].path)
       THEN gw' = [gw EXCEPT ![r] = [@ EXCEPT !.pc = "done", !.resp = 429,
                                                 !.retryAfter = RetryAfter(record, now)]]
       ELSE gw' = [gw EXCEPT ![r] = [@ EXCEPT !.pc = "put", !.record = record]]
    /\ UNCHANGED <<db, req, adm, rl, allowed, now, sess>>

\* RateLimiter.checkLimit line 65-69: kv.put, allowed: true; a record with
\* count 1 opens a new window
LimitPut(r) ==
    /\ gw[r].pc = "put"
    /\ rl' = gw[r].record
    /\ allowed' = IF gw[r].record.count = 1
                  THEN [p \in LimitedPaths |-> IF p = gw[r].path THEN 1 ELSE 0]
                  ELSE [allowed EXCEPT ![gw[r].path] = @ + 1]
    /\ gw' = [gw EXCEPT ![r] = [@ EXCEPT !.pc = "handler", !.record = NoLimitRecord]]
    /\ UNCHANGED <<db, req, adm, now, sess>>

\* the route of /api/claim behind its limiter: ClaimHandler.claimCard
GateClaim(r) ==
    /\ gw[r].pc = "handler"
    /\ gw[r].path = ClaimPath
    /\ Claim(r, Identities)

\* the rate-limit record an earlier run of requests of the client on one
\* path has left in KV: none, one past its resetTime, one of the running window
InitGate ==
    /\ InitTables
    /\ NoSessions
    /\ gw = [r \in Reqs |-> IdleGw]
    /\ now = 0
    /\ \E p \in LimitedPaths :
         \/ /\ rl = NoLimitRecord
            /\ allowed = [q \in LimitedPaths |-> 0]
         \/ /\ rl = [present |-> TRUE, resetTime |-> now, count |-> MaxRequestsOf(p)]
            /\ allowed = [q \in LimitedPaths |-> 0]
         \/ \E c \in {1, MaxRequestsOf(p) - 1, MaxRequestsOf(p)}, left \in {1, WindowMs} :
              /\ rl = [present |-> TRUE, resetTime |-> now + left, count |-> c]
              /\ allowed = [q \in LimitedPaths |-> IF q = p THEN c ELSE 0]

\* time passes: the instants at which a later request can read the clock
Instants == {1, 1001, WindowMs, WindowMs + 1}
Elapse ==
    /\ \E t \in Instants : t > now /\ now' = t
    /\ UNCHANGED <<db, req, adm, gw, rl, allowed, sess>>

\* ------------------------------- AuthHandler.verifySession, handleLogout
\* a request ends: verifySession returns { valid }, handleLogout answers 302
SessDone(r, valid) ==
    vs' = [vs EXCEPT ![r] = [@ EXCEPT !.pc = "done", !.valid = valid]]

\* getSessionIdFromRequest: without session id verifySession returns
\* invalid and handleLogout deletes nothing
SessStart(r) ==
    /\ vs[r].pc = "new"
    /\ \E op \in {"verify", "logout"}, sid \in SessionIds \cup {NoSessionId} :
         vs' = [vs EXCEPT ![r] =
                  [pc |-> IF sid = NoSessionId THEN "done"
                          ELSE IF op = "verify" THEN "get" ELSE "delete",
                   op |-> op, sid |-> sid, valid |-> FALSE]]
    /\ UNCHANGED <<db, req, adm, gate, sessions, loggedOut>>

\* SessionService.getSession: kv.get of the session key
getSession(sid) == sid \in sessions

\* verifySession: await sessionService.getSession(sessionId)
VerifyGet(r) ==
    /\ vs[r].pc = "get"
    /\ IF getSession(vs[r].sid)
         THEN vs' = [vs EXCEPT ![r].pc = "getuser"]
         ELSE SessDone(r, FALSE)
    /\ UNCHANGED <<db, req, adm, gate, sessions, loggedOut>>

\* verifySession: await dbService.getUser(session.userId), banned check
VerifyGetUser(r) ==
    /\ vs[r].pc = "getuser"
    /\ \E isBanned \in BOOLEAN :
         IF isBanned
           THEN SessDone(r, FALSE)
           ELSE vs' = [vs EXCEPT ![r].pc = "refresh"]
    /\ UNCHANGED <<db, req, adm, gate, sessions, loggedOut>>

\* refreshSession, first half: getSession; without session it returns
\* false, which verifySession does not look at
RefreshGet(r) ==
    /\ vs[r].pc = "refresh"
    /\ IF getSession(vs[r].sid)
         THEN vs' = [vs EXCEPT ![r].pc = "refreshput"]
         ELSE SessDone(r, TRUE)
    /\ UNCHANGED <<db, req, adm, gate, sessions, loggedOut>>

\* refreshSession, second half: kv.put of the session read before
PutSession(sid) == sessions \cup {sid}
RefreshPut(r) ==
    /\ vs[r].pc = "refreshput"
    /\ sessions' = PutSession(vs[r].sid)
    /\ SessDone(r, TRUE)
    /\ UNCHANGED <<db, req, adm, gate, loggedOut>>

\* handleLogout: await sessionService.deleteSession(sessionId): kv.delete
LogoutDelete(r) ==
    /\ vs[r].pc = "delete"
    /\ sessions' = sessions \ {vs[r].sid}
    /\ loggedOut' = loggedOut \cup {vs[r].sid}
    /\ SessDone(r, FALSE)
    /\ UNCHANGED <<db, req, adm, gate>>

\* the sessions earlier logins have created: createSession draws a fresh
\* random id for each, so it never writes the key of an id already issued
InitSession ==
    /\ InitTables
    /\ gw = [r \in Reqs |-> IdleGw]
    /\ rl = NoLimitRecord
    /\ allowed = [p \in LimitedPaths |-> 0]
    /\ now = 0
    /\ sessions \in SUBSET SessionIds
    /\ loggedOut = {}
    /\ vs = [r \in SessReqs |-> IdleVs]

NextSession ==
    \/ \E r \in SessReqs : SessStart(r)
    \/ \E r \in SessReqs : VerifyGet(r)
    \/ \E r \in SessReqs : VerifyGetUser(r)
    \/ \E r \in SessReqs : RefreshGet(r)
    \/ \E r \in SessReqs : RefreshPut(r)
    \/ \E r \in SessReqs : LogoutDelete(r)

Next ==
    \/ \E r \in Reqs : Claim(r, Identities)
    \/ \E a \in Admins : Admin(a)

\* claim requests alone, no admin request in flight
NextClaims == \E r \in ClaimReqs : Claim(r, ClaimIdentities)

\* requests at the session check and the limiters, with time passing
NextLimiter ==
    \/ \E r \in Reqs : GateAuth(r)
    \/ \E r \in Reqs : LimitRead(r)
    \/ \E r \in Reqs : LimitPut(r)
    \/ Elapse

\* requests from the worker's entry through the session check and the
\* limiter to the claim handler
NextGate ==
    \/ \E r \in Reqs : GateAuth(r)
    \/ \E r \in Reqs : LimitRead(r)
    \/ \E r \in Reqs : LimitPut(r)
    \/ \E r \in Reqs : GateClaim(r)

\* the addCards and deleteCard requests of an admin, with the updateProject
\* call each of them ends in
CardAdmin(a) ==
    \/ AddCardsStart(a)
    \/ AddCardsRead(a)
    \/ AddCardsInsert(a)
    \/ DeleteCardStart(a)
    \/ DeleteCardHandlerGet(a)
    \/ DeleteCardGet(a)
    \/ DeleteCardDelete(a)
    \/ DeleteCardRead(a)
    \/ UpdateRead(a)
    \/ UpdateWrite(a)

\* deleteProject alone
ProjectRemoval(a) ==
    \/ DeleteProjectStart(a)
    \/ DeleteProjectRead(a)
    \/ DeleteProjectDelete(a)

\* each request is a claim or a status check; the project can be deleted meanwhile
NextStatus ==
    \/ \E r \in Reqs : Claim(r, Identities)
    \/ \E r \in ClaimReqs : ClaimStatus(r, Identities)
    \/ \E a \in Admins : ProjectRemoval(a)

\* the steps of a claim request after the handler has taken it up; the
\* worker runs every request it has taken up to its response
ClaimProgress(r) ==
    \/ ClaimDupCheck(r)
    \/ ClaimPick(r)
    \/ ClaimGetCard(r)
    \/ ClaimBatch(r)

\* claim requests next to a deleteProject request
NextLive ==
    \/ \E r \in Reqs : Claim(r, Identities)
    \/ \E a \in Admins : ProjectRemoval(a)

\* the updateProject and toggleProjectStatus requests of an admin
ProjectUpdate(a) ==
    \/ UpdateStart(a)
    \/ ToggleStart(a)
    \/ UpdateRead(a)
    \/ UpdateWrite(a)

\* two concurrent project updates
NextUpdates == \E a \in AdminPair : ProjectUpdate(a)

\* two concurrent card-management requests, no claim request in flight
NextCardAdmin == \E a \in AdminPair : CardAdmin(a)

Spec == Init /\ [][Next]_vars
SpecClaims == Init /\ [][NextClaims]_vars
SpecCardAdmin == Init /\ [][NextCardAdmin]_vars
SpecStatus == Init /\ [][NextStatus]_vars
SpecGate == InitGate /\ [][NextGate]_vars
SpecLimiter == InitGate /\ [][NextLimiter]_vars
SpecSession == InitSession /\ [][NextSession]_vars
SpecUpdates == Init /\ [][NextUpdates]_vars
SpecLive ==
    /\ Init /\ [][NextLive]_vars
    /\ \A r \in Reqs : WF_vars(ClaimProgress(r))
\* ======================================================================
\* Properties
\* ======================================================================
ClaimedRows(cs) == {c \in CardIds : IsRow(cs, c) /\ cs[c].isClaimed}
Fresh(r) == req[r].resp = "ok"
Min2(a, b) == IF a <= b THEN a ELSE b

\* C1: a card is handed out as a fresh success to at most one request: no
\* two claim requests both end in a fresh success for the same card id.
C1_CardHandedOutOnce ==
    \A r1, r2 \in AllReqs :
        (r1 # r2 /\ Fresh(r1) /\ Fresh(r2)) => req[r1].cardId # req[r2].cardId

\* C2: with one-claim-per-identity on, claimedCards equals the number of
\* card rows with is_claimed = 1 and the number of claim_records rows.
C2_CounterConsistent ==
    (project.exists /\ project.limitOnePerUser) =>
        /\ project.claimedCards = Cardinality(ClaimedRows(cards))
        /\ project.claimedCards = Len(records)

\* C3: claimedCards <= totalCards in every reachable state.
C3_ClaimedAtMostTotal ==
    project.exists => project.claimedCards <= project.totalCards

\* C4: when N distinct identities have each issued one claim with the
\* correct password on the active project with one-claim-per-identity on
\* and P unclaimed cards, and all requests are answered, exactly min(N, P)
\* of them are fresh successes, on pairwise different cards, and every
\* other request was answered Exhausted (410).
C4_MinOfIdentitiesAndPool ==
    ( /\ project.limitOnePerUser
      /\ \A r \in ClaimReqs : req[r].pc = "done" /\ req[r].password = project.password
      /\ \A r1, r2 \in ClaimReqs : r1 # r2 => req[r1].ipHash # req[r2].ipHash )
    =>
    ( /\ Cardinality({r \in ClaimReqs : Fresh(r)}) = Min2(Cardinality(ClaimReqs), Cardinality(InitialCards))
      /\ \A r1, r2 \in ClaimReqs :
            (r1 # r2 /\ Fresh(r1) /\ Fresh(r2)) => req[r1].cardId # req[r2].cardId
      /\ \A r \in ClaimReqs : ~Fresh(r) => (req[r].resp = "Exhausted" /\ Status(req[r].resp) = 410) )
\* the claim request r takes a step
Steps(r) == req'[r] # req[r]
\* another request of identity ip already ended in a fresh success
PriorSuccess(r, ip) == {r0 \in AllReqs \ {r} : Fresh(r0) /\ req[r0].ipHash = ip}

\* C5: with one-claim-per-identity on, a claim request with the correct
\* password that is issued after a fresh success of the same identity
\* passes validation, is answered success with alreadyClaimed and the card
\* content of that fresh success, and none of its steps changes a card, a
\* ledger entry or a counter.
C5_RepeatIsIdempotent ==
    [][\A r \in AllReqs :
         ( /\ Steps(r)
           /\ req[r].pc \in {"idle", "dupcheck"}
           /\ project.limitOnePerUser
           /\ req'[r].password = project.password
           /\ PriorSuccess(r, req'[r].ipHash) # {} )
         =>
         ( /\ UNCHANGED db
           /\ req[r].pc = "idle" => req'[r].pc = "dupcheck"
           /\ req[r].pc = "dupcheck" =>
                /\ req'[r].resp = "already"
                /\ Status(req'[r].resp) = 200
                /\ \A r0 \in PriorSuccess(r, req[r].ipHash) :
                      req'[r].respCard = req[r0].respCard )]_vars

C5_Witness ==
    \E r, r0 \in AllReqs :
        /\ Fresh(r0) /\ req[r].resp = "already"
        /\ req[r].ipHash = req[r0].ipHash /\ req[r].respCard = req[r0].respCard

\* C6: the project has at most one claim_records row per identity, and no
\* identity ends two claim requests in a fresh success.
C6_OneEntryPerIdentity ==
    /\ \A ip \in ClaimIdentities : Cardinality(RecordsOf(records, ip)) <= 1
    /\ \A r1, r2 \in AllReqs :
          (r1 # r2 /\ Fresh(r1) /\ Fresh(r2)) => req[r1].ipHash # req[r2].ipHash

\* two requests of one identity ran concurrently on different cards: one
\* won, the insert of the other was rejected by the unique index
C6_Witness ==
    \E r1, r2 \in AllReqs :
        /\ r1 # r2 /\ req[r1].ipHash = req[r2].ipHash
        /\ Fresh(r1) /\ req[r2].resp = "Internal"
        /\ req[r2].cardId # NoCard /\ req[r1].cardId # req[r2].cardId

\* C7: a claim request whose password differs from the stored claim
\* password ends at its validation step: it changes no card, no ledger
\* entry and no counter, and on an existing active project the answer is
\* BadPassword (401).
C7_BadPasswordTouchesNothing ==
    [][\A r \in AllReqs :
         ( /\ Steps(r)
           /\ req[r].pc = "idle"
           /\ req'[r].password # project.password )
         =>
         ( /\ UNCHANGED db
           /\ req'[r].pc = "done"
           /\ req'[r].resp \in {"NotFound", "Inactive", "BadPassword"}
           /\ (project.exists /\ project.isActive) =>
                 (req'[r].resp = "BadPassword" /\ Status(req'[r].resp) = 401) )]_vars

\* a request was rejected for its password while another one claimed a card
C7_Witness ==
    \E r1, r2 \in AllReqs :
        /\ req[r1].resp = "BadPassword" /\ req[r1].password # project.password
        /\ Fresh(r2) /\ project.exists

\* C8: a claim request that finds the project's active flag false is
\* answered Inactive (403) at its validation step and changes no card, no
\* ledger entry and no counter.
C8_InactiveTouchesNothing ==
    [][\A r \in AllReqs :
         ( /\ Steps(r)
           /\ req[r].pc = "idle"
           /\ project.exists /\ ~project.isActive )
         =>
         ( /\ UNCHANGED db
           /\ req'[r].pc = "done"
           /\ req'[r].resp = "Inactive"
           /\ Status(req'[r].resp) = 403 )]_vars

C8_Witness ==
    \E r \in AllReqs : req[r].resp = "Inactive" /\ project.exists /\ ~project.isActive

\* C9: when a request of an identity without ledger entry asks for a card
\* while totalCards = claimedCards, it is answered Exhausted (410).
C9_ExhaustedWhenCountersEqual ==
    [][\A r \in AllReqs :
         ( /\ Steps(r)
           /\ req[r].pc = "pick"
           /\ project.exists
           /\ project.totalCards = project.claimedCards
           /\ RecordsOf(records, req[r].ipHash) = {} )
         =>
         ( req'[r].resp = "Exhausted" /\ Status(req'[r].resp) = 410 )]_vars

C11_DuplicateInsertReturnsWinner ==
    [][\A r \in AllReqs :
         ( /\ Steps(r)
           /\ req[r].pc = "batch"
           /\ project.exists /\ project.limitOnePerUser
           /\ RecordsOf(records, req[r].ipHash) # {} )
         =>
         ( /\ req'[r].resp = "already"
           /\ req'[r].respCard = hasUserClaimed(records, req[r].ipHash).cardContent )]_vars

\* C12: the batch of a claim commits as a whole or not at all: a batch
\* whose ledger insert is rejected leaves every card, the ledger and the
\* counters as they were (a picked card that was unclaimed is still
\* unclaimed), and a batch that commits adds one ledger entry, adds one to
\* claimedCards and leaves the picked card, if it was unclaimed, claimed by
\* the request's identity.
C12_BatchAllOrNothing ==
    [][\A r \in AllReqs :
         (Steps(r) /\ req[r].pc = "batch")
         =>
         LET c == req[r].cardId IN
         \/ /\ req'[r].resp = "Internal"
            /\ UNCHANGED db
            /\ (IsRow(cards, c) /\ ~cards[c].isClaimed) => ~cards'[c].isClaimed
         \/ /\ req'[r].resp = "ok"
            /\ Len(records') = Len(records) + 1
            /\ project'.claimedCards = project.claimedCards + 1
            /\ (IsRow(cards, c) /\ ~cards[c].isClaimed) =>
                  (cards'[c].isClaimed /\ cards'[c].claimedBy = req[r].ipHash)]_vars

\* the insert of a request was rejected by the unique index and the card it
\* had picked is still unclaimed
C12_Witness ==
    \E r \in AllReqs :
        /\ req[r].resp = "Internal" /\ project.exists
        /\ RecordsOf(records, req[r].ipHash) # {}
        /\ IsRow(cards, req[r].cardId) /\ ~cards[req[r].cardId].isClaimed

\* C13: deleteCard never removes a claimed card: a card row with
\* is_claimed = 1 is still a row after every step that leaves the project
\* in place.
C13_ClaimedCardNeverDeleted ==
    [][\A c \in CardIds :
         (IsRow(cards, c) /\ cards[c].isClaimed /\ project'.exists) => IsRow(cards', c)]_vars

\* C14: once a card row is claimed, its content and its claimant (written
\* together with claimed_at) never change while the row exists, and
\* getRandomAvailableCard never hands its id to a request again.
C14_ClaimedCardImmutable ==
    [][/\ \A c \in CardIds :
            (IsRow(cards, c) /\ cards[c].isClaimed /\ IsRow(cards', c)) => cards'[c] = cards[c]
       /\ \A r \in AllReqs :
            (Steps(r) /\ req[r].pc = "pick" /\ req'[r].pc = "getcard")
            => (IsRow(cards, req'[r].cardId) /\ ~cards[req'[r].cardId].isClaimed)]_vars

C14_Witness ==
    \E r \in AllReqs :
        /\ req[r].resp = "ok"
        /\ IsRow(cards, req[r].cardId)
        /\ cards[req[r].cardId].isClaimed
        /\ cards[req[r].cardId].claimedBy # req[r].ipHash

\* C15: claimedCards of a project changes only in a step that completes a
\* successful claim; no admin operation changes the stored value.
C15_ClaimedCardsOnlyByClaim ==
    [][(project.exists /\ project'.exists /\ project'.claimedCards # project.claimedCards)
       => \E r \in AllReqs : req[r].pc = "batch" /\ req'[r].resp = "ok"]_vars

\* C16: after any sequence or interleaving of addCards and deleteCard
\* requests has run to completion, totalCards equals the number of card rows
\* of the project.
C16_TotalEqualsCardRows ==
    (project.exists /\ \A a \in AdminPair : adm[a].pc \in {"idle", "done"})
    => project.totalCards = Cardinality({c \in CardIds : IsRow(cards, c)})

\* C17: once deleteProject has removed the project, no card row and no
\* ledger entry of it exists in any later state, also when a claim that was
\* in flight during the delete runs its batch afterwards.
C17_NothingAfterDeleteProject ==
    ~project.exists =>
        (records = <<>> /\ \A c \in CardIds : ~IsRow(cards, c))

C17_Witness ==
    /\ ~project.exists
    /\ \E a \in Admins : adm[a].op = "deleteProject" /\ adm[a].resp = 200
    /\ \E r \in AllReqs : req[r].resp = "Internal" /\ req[r].cardId # NoCard

\* C18: the claim ledger is append-only: a step that completes a fresh
\* successful claim appends exactly one entry (the claimant and the delivered
\* content), no other step adds one, the entries already there stay as they
\* are, and entries disappear only in the step that deletes the project.
C18_LedgerAppendOnly ==
    [][/\ \A r \in AllReqs :
            (Steps(r) /\ req'[r].resp = "ok")
            => records' = Append(records, [ipHash |-> req[r].ipHash,
                                           cardContent |-> req'[r].respCard])
       /\ (records' # records)
            => \/ project.exists /\ ~project'.exists /\ records' = <<>>
               \/ /\ Len(records') = Len(records) + 1
                  /\ SubSeq(records', 1, Len(records)) = records
                  /\ \E r \in AllReqs : Steps(r) /\ req'[r].resp = "ok"]_vars

C18_Witness ==
    /\ Len(records) = 2
    /\ \E r1, r2 \in AllReqs :
         /\ r1 # r2 /\ Fresh(r1) /\ Fresh(r2)
         /\ records[1].ipHash = req[r1].ipHash
         /\ records[2].ipHash = req[r2].ipHash

\* C19: no step of getClaimStatus changes the project, a card or the ledger,
\* and its answer carries hasClaimed = true exactly when the ledger holds an
\* entry of the caller's identity at the time of its lookup.
C19_StatusReadOnlyAndExact ==
    [][\A r \in AllReqs :
         /\ (Steps(r) /\ (req[r].pc = "st_lookup" \/ req'[r].pc = "st_lookup"))
              => UNCHANGED db
         /\ (Steps(r) /\ req[r].pc = "st_lookup")
              => /\ req'[r].resp \in {"hasClaimed", "notClaimed"}
                 /\ (req'[r].resp = "hasClaimed") <=> (RecordsOf(records, req[r].ipHash) # {})]_vars

C19_Witness ==
    \E r1, r2 \in AllReqs :
        /\ req[r1].resp = "hasClaimed" /\ req[r2].resp = "notClaimed"
        /\ records # <<>>

\* C20: a claim request that ends without a card while every card of the
\* project is claimed is answered Exhausted (410), not the retryable 500,
\* also when the last unclaimed card was taken by another request after
\* this request had picked it.
C20_ExhaustionNeverRetryable ==
    [][\A r \in AllReqs :
         ( /\ Steps(r)
           /\ req[r].pc \in {"pick", "getcard"}
           /\ req'[r].pc = "done"
           /\ project.exists
           /\ AvailableCards(cards) = {} )
         =>
         ( req'[r].resp = "Exhausted" /\ Status(req'[r].resp) = 410 )]_vars

\* C21: an admin request (updateProject, toggleProjectStatus, addCards,
\* deleteCard, deleteProject) submitted with a password other than the
\* stored admin password of the existing project ends at once with 401 and
\* changes neither the project nor a card nor the ledger.
C21_WrongAdminPasswordRejected ==
    [][\A a \in Admins \cup AdminPair :
         ( /\ adm[a].pc = "idle" /\ adm'[a].pc # "idle"
           /\ project.exists
           /\ adm'[a].password # project.adminPassword )
         =>
         ( adm'[a].pc = "done" /\ adm'[a].resp = 401 /\ UNCHANGED db )]_vars

C21_Witness ==
    \E a \in Admins :
        /\ adm[a].pc = "done" /\ adm[a].resp = 401 /\ adm[a].password = "bad"
        /\ adm[a].op = "deleteProject"
        /\ project.exists /\ records # <<>>

\* C22: a request to a protected path that carries no valid session is
\* answered 401 in the step of the session check, before the rate limiter
\* of its route reads or writes its record and before the handler runs, and
\* it changes no project, card or ledger state.
C22_NoSessionNoEntry ==
    [][\A r \in Reqs :
         /\ ( /\ gw[r].pc = "new" /\ gw'[r].pc # "new"
              /\ gw'[r].path \in ProtectedPaths
              /\ gw'[r].session # "valid" )
            => ( /\ gw'[r].pc = "done" /\ gw'[r].resp = 401
                 /\ UNCHANGED <<db, rl, allowed, req>> )
         /\ (gw'[r].path \in ProtectedPaths /\ gw'[r].session # "valid")
            => (gw'[r].pc = "done" /\ req'[r] = IdleReq)]_vars

C22_Witness ==
    \E r1, r2 \in Reqs :
        /\ gw[r1].resp = 401 /\ gw[r1].path = ClaimPath /\ gw[r1].session = "banned"
        /\ gw[r2].session = "valid" /\ req[r2].resp = "ok"

\* C23: within one window of the client's rate-limit record, the limiter of
\* a path lets at most maxRequests checks pass (20 for /api/claim, 10 for
\* /api/verify), also when checks of the client run concurrently.
C23_AtMostMaxRequests ==
    \A p \in LimitedPaths : allowed[p] <= MaxRequestsOf(p)

\* the position of a claim request in the handler, counted in storage operations
PcRank(pc) ==
    CASE pc = "idle" -> 0
      [] pc = "dupcheck" -> 1
      [] pc = "pick" -> 2
      [] pc = "getcard" -> 3
      [] pc = "batch" -> 4
      [] OTHER -> 5

\* C24: every claim attempt ends with exactly one response after at most
\* five storage operations: each of its steps moves it forward in the
\* handler, it carries a response exactly when it has ended, it never acts
\* again afterwards, and every attempt the handler has taken up does end.
C24_ClaimTerminates ==
    /\ [][\A r \in Reqs :
            /\ Steps(r) => PcRank(req'[r].pc) > PcRank(req[r].pc)
            /\ (req'[r].resp # "none") <=> (req'[r].pc = "done")]_vars
    /\ \A r \in Reqs : (req[r].pc # "idle") ~> (req[r].pc = "done")

C24_Witness ==
    /\ \A r \in Reqs : req[r].pc = "done"
    /\ \E r \in Reqs : req[r].resp = "RaceLost"
    /\ \E r \in Reqs : req[r].resp = "ok"

\* C25: the claim handler checks in the order project exists, project
\* active, password matches: a request on a deleted project ends NotFound
\* (404), one on an existing inactive project ends Inactive (403) whatever
\* its password, and BadPassword (401) is answered only on an existing
\* active project.
C25_ValidationOrder ==
    [][\A r \in AllReqs :
         (Steps(r) /\ req[r].pc = "idle")
         =>
         /\ ~project.exists
              => (req'[r].resp = "NotFound" /\ Status(req'[r].resp) = 404)
         /\ (project.exists /\ ~project.isActive)
              => (req'[r].resp = "Inactive" /\ Status(req'[r].resp) = 403)
         /\ req'[r].resp = "BadPassword"
              => ( /\ project.exists /\ project.isActive
                   /\ req'[r].password # project.password
                   /\ Status(req'[r].resp) = 401 )]_vars

C25_Witness ==
    \E r \in AllReqs :
        /\ req[r].resp = "Inactive" /\ req[r].password = "bad"
        /\ project.exists /\ ~project.isActive

\* the card rows a ledger entry can have been created from: claimed, by the
\* entry's identity, with the entry's content
CardsOfEntry(e) ==
    {c \in ClaimedRows(cards) : cards[c].claimedBy = e.ipHash /\ cards[c].content = e.cardContent}

\* C26: while the project exists, every ledger entry has a claimed card row
\* with claimed_by equal to the entry's identity and the entry's content, and
\* two different entries have two different such cards.
C26_EntryMatchesItsCard ==
    project.exists =>
        /\ \A i \in 1..Len(records) : CardsOfEntry(records[i]) # {}
        /\ \A i, j \in 1..Len(records) :
             i # j => \E c \in CardsOfEntry(records[i]), d \in CardsOfEntry(records[j]) : c # d

\* C27: the write of updateProject changes exactly the supplied fields:
\* each supplied field takes the supplied value and every other field of
\* the project keeps the value stored right before the write, also when
\* another updateProject call wrote in between this call's read and write.
C27_PartialMergeKeepsOtherFields ==
    [][\A a \in AdminPair :
         (adm[a].pc = "upd_write" /\ adm'[a].pc = "done" /\ project.exists)
         =>
         \A f \in DOMAIN project :
             project'[f] = IF f \in adm[a].body.fields /\ f # "exists"
                           THEN adm[a].body.val[f] ELSE project[f]]_vars

\* C28: no card changes from unclaimed to claimed and no ledger entry is
\* added while the stored active flag of the project is false, also by a
\* claim request that passed validation before the project was deactivated.
C28_NoClaimWhileInactive ==
    [][(project.exists /\ ~project.isActive)
       => /\ \A c \in CardIds :
               (IsRow(cards, c) /\ ~cards[c].isClaimed /\ IsRow(cards', c)) => ~cards'[c].isClaimed
          /\ Len(records') <= Len(records)]_vars

\* C29: on a project whose one-claim-per-identity flag is off, a claim of an
\* identity that already has a ledger entry is never answered with that
\* entry, and when it reaches its batch the unique index rejects the insert:
\* the request ends 500, the picked card stays unclaimed, and claimedCards
\* and the ledger are as before.
C29_FlagOffRepeatRejected ==
    [][\A r \in AllReqs :
         (Steps(r) /\ project.exists /\ ~project.limitOnePerUser)
         =>
         /\ req'[r].resp # "already"
         /\ (req[r].pc = "batch" /\ RecordsOf(records, req[r].ipHash) # {})
              => ( /\ req'[r].resp = "Internal" /\ Status(req'[r].resp) = 500
                   /\ UNCHANGED db )]_vars

C29_Witness ==
    \E r \in AllReqs :
        /\ project.exists /\ ~project.limitOnePerUser
        /\ req[r].resp = "Internal"
        /\ RecordsOf(records, req[r].ipHash) # {}
        /\ req[r].cardId \in AvailableCards(cards)

\* C30: a claim request whose picked card was removed by deleteCard between
\* its read of the card and its batch does not answer with the card as a
\* success, adds no ledger entry and does not increment claimedCards.
C30_DeletedCardNotDelivered ==
    [][\A r \in AllReqs :
         ( /\ Steps(r)
           /\ req[r].pc = "batch"
           /\ project.exists
           /\ ~IsRow(cards, req[r].cardId) )
         =>
         ( /\ req'[r].resp # "ok"
           /\ records' = records
           /\ project'.claimedCards = project.claimedCards )]_vars

\* C31: a check that RateLimiter.checkLimit rejects (429) leaves the stored
\* record as it is and reports a retryAfter of at least 1 second, and a
\* check made at or after the resetTime of the stored record is not rejected.
C31_RejectionWritesNothing ==
    [][\A r \in Reqs :
         (gw[r].pc = "limit" /\ gw'[r] # gw[r])
         =>
         /\ gw'[r].resp = 429
              => (rl' = rl /\ allowed' = allowed /\ gw'[r].retryAfter >= 1)
         /\ (rl.present /\ rl.resetTime <= now)
              => (gw'[r].resp # 429 /\ gw'[r].record.count = 1)]_vars

C31_Witness ==
    \E r1, r2 \in Reqs :
        /\ gw[r1].resp = 429 /\ gw[r1].retryAfter = 1
        /\ gw[r2].pc = "handler" /\ gw[r2].path = gw[r1].path
        /\ rl.count = 1 /\ rl.resetTime > WindowMs

\* C32: the limiters count independently: a check on /api/claim is not
\* rejected while fewer than 20 checks on /api/claim have passed in the
\* window of the client's record, whatever the client requested on paths
\* under the other limiters.
C32_ClaimQuotaIndependent ==
    [][\A r \in Reqs :
         ( /\ gw[r].pc = "limit" /\ gw'[r] # gw[r]
           /\ gw[r].path = ClaimPath
           /\ allowed[ClaimPath] < MaxRequestsOf(ClaimPath) )
         => gw'[r].resp # 429]_vars

\* C33: once handleLogout has deleted a session, every verifySession that
\* reads that session id afterwards rejects it, also when a request of the
\* session was between its checks and its refreshSession during the logout.
C33_LoggedOutSessionRejected ==
    [][\A r \in SessReqs :
         (vs[r].pc = "get" /\ vs'[r] # vs[r] /\ vs[r].sid \in loggedOut)
         => (vs'[r].pc = "done" /\ ~vs'[r].valid)]_vars
====
